---- MODULE Spec2Model ----
(***************************************************************************)
(* Model of tools/vpn_analyzer.py: VPNAnalyzer.run_analysis as a           *)
(* sequential pipeline                                                     *)
(*   load_test_data -> analyze_latency -> analyze_bandwidth                *)
(*                  -> charts -> generate_summary_report -> done           *)
(* with an uncaught Python exception ending the run in pc = "crashed".     *)
(*                                                                         *)
(* JSON numbers are modelled as integers; every derived float (overhead    *)
(* percent, bandwidth ratio, means) is an exact rational <<n, d>>, d > 0,  *)
(* in lowest terms.  A test name such as ping_a is the token sequence      *)
(* <<"ping", "a">>; a file stem ping_a_latest is <<"ping", "a", "latest">>.*)
(***************************************************************************)
EXTENDS Integers, Sequences, FiniteSets

VARIABLES
    pc,              \* where run_analysis stands, "done" or "crashed"
    data,            \* load_test_data's data: [baseline, vpn], name -> record
    seen,            \* <<directory, stem>> of the files the glob loops visited
    warnings,        \* files for which "Warning: Could not load" was printed
    latency_data,    \* what analyze_latency returned
    bandwidth_data,  \* what analyze_bandwidth returned
    charts,          \* chart images saved under analysis/
    report,          \* content of comprehensive_report_<timestamp>.txt
    error            \* the exception that left run_analysis, if any

vars == <<pc, data, seen, warnings, latency_data, bandwidth_data,
          charts, report, error>>

(***************************************************************************)
(* Bounds of the model.                                                    *)
(***************************************************************************)
\* Result files matched by the glob, over baseline/ and vpn/ together.
MaxFiles == 4
\* Tests per kind handed to generate_summary_report in SpecReport.
MaxTests == 2

(***************************************************************************)
(* Exact rational arithmetic standing for Python float arithmetic.         *)
(***************************************************************************)
Abs(x) == IF x < 0 THEN -x ELSE x

RECURSIVE GCD(_, _)
GCD(a, b) == IF b = 0 THEN a ELSE GCD(b, a % b)

\* n/d with d # 0, as a pair in lowest terms with a positive denominator.
Rat(n, d) ==
    LET s == IF d < 0 THEN -1 ELSE 1
        g == GCD(Abs(n), Abs(d))
    IN  <<(s * n) \div g, (s * d) \div g>>

RatAdd(x, y) == Rat(x[1] * y[2] + y[1] * x[2], x[2] * y[2])
RatSub(x, y) == Rat(x[1] * y[2] - y[1] * x[2], x[2] * y[2])
RatMul(x, y) == Rat(x[1] * y[1], x[2] * y[2])
RatLess(x, y) == x[1] * y[2] < y[1] * x[2]
RatInt(i) == <<i, 1>>

EmptyMap == [k \in {} |-> 0]

Put(m, k, v) == [x \in DOMAIN m \cup {k} |-> IF x = k THEN v ELSE m[x]]

(***************************************************************************)
(* Inputs: the files under baseline/ and vpn/ and what they hold.          *)
(***************************************************************************)
\* run_analysis(test_type="latest"): the tag the glob "*_latest.txt" selects.
TestType == "latest"

Dirs == {"baseline", "vpn"}

\* Stems of the files the glob can match in either directory.
FileStems == { <<"ping", "a", TestType>>,
               <<"ping", "b", TestType>>,
               <<"iperf", "a", TestType>> }

\* A latency record with the four fields analyze_latency reads.
LatencyRecord(avg) ==
    [avg_ping_ms |-> avg, min_ping_ms |-> avg, max_ping_ms |-> avg,
     packet_loss_percent |-> 0]

\* A bandwidth record without the optional direction field.
BandwidthRecord(mbps) == [bandwidth_mbps |-> mbps]

\* A bandwidth record with the optional direction field.
DirectedBandwidthRecord(mbps, dir) == [bandwidth_mbps |-> mbps, direction |-> dir]

\* A JSON object that json.loads accepts but that has no measurement field.
StrayObject == [note |-> 0]

LatencyRecords == { LatencyRecord(a) : a \in {0, 20, 22} }

BandwidthRecords == { BandwidthRecord(0), BandwidthRecord(450),
                      DirectedBandwidthRecord(500, "download") }

\* The JSON values a file with this stem may hold.
JsonValues(stem) ==
    IF stem[1] = "ping" THEN LatencyRecords \cup {StrayObject}
                        ELSE BandwidthRecords \cup {StrayObject}

NoError == [type |-> "none", in |-> "none"]

NoReport == [written |-> FALSE,
             latency |-> EmptyMap, latency_note |-> "",
             bandwidth |-> EmptyMap, bandwidth_note |-> "",
             overall |-> ""]

(***************************************************************************)
(* load_test_data                                                          *)
(***************************************************************************)
\* file_path.stem.replace("_latest", ""): every occurrence of the tag goes.
TestName(stem, test_type) == SelectSeq(stem, LAMBDA tok : tok # test_type)

\* One iteration of a glob loop.  state is what open/read/json.loads meet:
\*   "unreadable": open raises PermissionError, which the except clause
\*                 (JSONDecodeError, FileNotFoundError) does not catch;
\*   "vanished":   open raises FileNotFoundError: warning, next file;
\*   "malformed":  json.loads raises JSONDecodeError: warning, next file;
\*   "empty":      content.strip() is falsy: nothing stored, nothing printed;
\*   "json":       the parsed value is stored under the test name.
LoadFile(d, stem, state, value) ==
    /\ seen' = seen \cup {<<d, stem>>}
    /\ CASE state = "unreadable" ->
              /\ pc' = "crashed"
              /\ error' = [type |-> "PermissionError", in |-> "load_test_data"]
              /\ UNCHANGED <<data, warnings>>
         [] state \in {"vanished", "malformed"} ->
              /\ warnings' = warnings \cup {<<d, stem>>}
              /\ UNCHANGED <<pc, error, data>>
         [] state = "empty" ->
              UNCHANGED <<pc, error, data, warnings>>
         [] state = "json" ->
              /\ data' = [data EXCEPT ![d] = Put(@, TestName(stem, TestType), value)]
              /\ UNCHANGED <<pc, error, warnings>>
    /\ UNCHANGED <<latency_data, bandwidth_data, charts, report>>

LoadDir(d) ==
    /\ Cardinality(seen) < MaxFiles
    /\ \E stem \in FileStems :
         /\ <<d, stem>> \notin seen
         /\ \/ \E state \in {"unreadable", "vanished", "malformed", "empty"} :
                 LoadFile(d, stem, state, StrayObject)
            \/ \E value \in JsonValues(stem) :
                 LoadFile(d, stem, "json", value)

LoadBaselineFile == pc = "load_baseline" /\ LoadDir("baseline")

\* The baseline loop ends (or baseline/ does not exist): on to vpn/.
LoadBaselineDone ==
    /\ pc = "load_baseline"
    /\ pc' = "load_vpn"
    /\ UNCHANGED <<data, seen, warnings, latency_data, bandwidth_data,
                   charts, report, error>>

LoadVpnFile == pc = "load_vpn" /\ LoadDir("vpn")

\* The vpn loop ends (or vpn/ does not exist): load_test_data returns data.
LoadVpnDone ==
    /\ pc = "load_vpn"
    /\ pc' = "analyze_latency"
    /\ UNCHANGED <<data, seen, warnings, latency_data, bandwidth_data,
                   charts, report, error>>

(***************************************************************************)
(* analyze_latency / analyze_bandwidth                                     *)
(***************************************************************************)
\* Faulty variant of StartsWith: the prefix is not compared.
StartsWithAnyPrefix(test_name, prefix) == Len(test_name) > 0

\* k.startswith('ping_') / k.startswith('iperf_') on a tokenised name.
StartsWith(test_name, prefix) == Len(test_name) > 0 /\ test_name[1] = prefix

\* {k: v for k, v in mapping.items() if k.startswith(prefix)}, as its key set.
PrefixKeys(mapping, prefix) == { k \in DOMAIN mapping : StartsWith(k, prefix) }

\* for test_name in baseline_x: if test_name in vpn_x
MatchedTests(d, prefix) ==
    { t \in PrefixKeys(d.baseline, prefix) : t \in PrefixKeys(d.vpn, prefix) }

\* The exception the loop body raises for one matched latency pair.
LatencyPairError(baseline, vpn) ==
    IF "avg_ping_ms" \notin DOMAIN vpn \/ "avg_ping_ms" \notin DOMAIN baseline
      THEN "KeyError"
    ELSE IF baseline.avg_ping_ms = 0
      THEN "ZeroDivisionError"
    ELSE IF \E f \in {"min_ping_ms", "max_ping_ms", "packet_loss_percent"} :
               f \notin DOMAIN baseline \/ f \notin DOMAIN vpn
      THEN "KeyError"
    ELSE "none"

\* Faulty variant of OverheadPercent: a fraction, not a percentage.
OverheadFraction(overhead_ms, baseline_avg) == Rat(overhead_ms, baseline_avg)

\* (overhead_ms / baseline['avg_ping_ms']) * 100
OverheadPercent(overhead_ms, baseline_avg) ==
    RatMul(Rat(overhead_ms, baseline_avg), RatInt(100))

\* The entry analyze_latency stores for a pair that raises nothing.
LatencyComparison(baseline, vpn) ==
    LET overhead_ms == vpn.avg_ping_ms - baseline.avg_ping_ms
    IN  [baseline_avg     |-> baseline.avg_ping_ms,
         vpn_avg          |-> vpn.avg_ping_ms,
         overhead_ms      |-> overhead_ms,
         overhead_percent |-> OverheadPercent(overhead_ms, baseline.avg_ping_ms),
         baseline_min     |-> baseline.min_ping_ms,
         baseline_max     |-> baseline.max_ping_ms,
         vpn_min          |-> vpn.min_ping_ms,
         vpn_max          |-> vpn.max_ping_ms,
         baseline_loss    |-> baseline.packet_loss_percent,
         vpn_loss         |-> vpn.packet_loss_percent]

\* An uncaught exception leaves run_analysis: nothing later runs.
Raise(type, where) ==
    /\ pc' = "crashed"
    /\ error' = [type |-> type, in |-> where]

\* The dict order is the glob order, so with several raising pairs any of
\* them may be the first one met.
AnalyzeLatency ==
    /\ pc = "analyze_latency"
    /\ LET matched == MatchedTests(data, "ping")
           raising == { t \in matched :
                          LatencyPairError(data.baseline[t], data.vpn[t]) # "none" }
       IN  IF raising = {}
             THEN /\ latency_data' =
                        [t \in matched |->
                           LatencyComparison(data.baseline[t], data.vpn[t])]
                  /\ pc' = "analyze_bandwidth"
                  /\ UNCHANGED error
             ELSE /\ \E t \in raising :
                        Raise(LatencyPairError(data.baseline[t], data.vpn[t]),
                              "analyze_latency")
                  /\ UNCHANGED latency_data
    /\ UNCHANGED <<data, seen, warnings, bandwidth_data, charts, report>>

\* The exception the loop body raises for one matched bandwidth pair.
BandwidthPairError(baseline, vpn) ==
    IF "bandwidth_mbps" \notin DOMAIN vpn \/ "bandwidth_mbps" \notin DOMAIN baseline
      THEN "KeyError"
    ELSE IF baseline.bandwidth_mbps = 0
      THEN "ZeroDivisionError"
    ELSE "none"

\* Faulty variant of BandwidthRatio: the operands swapped.
BandwidthRatioSwapped(vpn_mbps, baseline_mbps) == Rat(baseline_mbps, vpn_mbps)

\* vpn['bandwidth_mbps'] / baseline['bandwidth_mbps']
BandwidthRatio(vpn_mbps, baseline_mbps) == Rat(vpn_mbps, baseline_mbps)

\* baseline.get('direction', 'unknown')
Direction(baseline) ==
    IF "direction" \in DOMAIN baseline THEN baseline.direction ELSE "unknown"

\* The entry analyze_bandwidth stores for a pair that raises nothing.
BandwidthComparison(baseline, vpn) ==
    LET bandwidth_ratio == BandwidthRatio(vpn.bandwidth_mbps, baseline.bandwidth_mbps)
    IN  [baseline_mbps          |-> baseline.bandwidth_mbps,
         vpn_mbps               |-> vpn.bandwidth_mbps,
         bandwidth_ratio        |-> bandwidth_ratio,
         bandwidth_loss_percent |-> RatMul(RatSub(RatInt(1), bandwidth_ratio),
                                           RatInt(100)),
         direction              |-> Direction(baseline)]

AnalyzeBandwidth ==
    /\ pc = "analyze_bandwidth"
    /\ LET matched == MatchedTests(data, "iperf")
           raising == { t \in matched :
                          BandwidthPairError(data.baseline[t], data.vpn[t]) # "none" }
       IN  IF raising = {}
             THEN /\ bandwidth_data' =
                        [t \in matched |->
                           BandwidthComparison(data.baseline[t], data.vpn[t])]
                  /\ pc' = "charts"
                  /\ UNCHANGED error
             ELSE /\ \E t \in raising :
                        Raise(BandwidthPairError(data.baseline[t], data.vpn[t]),
                              "analyze_bandwidth")
                  /\ UNCHANGED bandwidth_data
    /\ UNCHANGED <<data, seen, warnings, latency_data, charts, report>>

(***************************************************************************)
(* Charts                                                                  *)
(***************************************************************************)
\* generate_latency_chart: returns early on an empty mapping, else saves
\* latency_analysis_<timestamp>.png.
GenerateLatencyChart(l) == IF DOMAIN l = {} THEN {} ELSE {"latency"}

\* generate_bandwidth_chart: the same for bandwidth_analysis_<timestamp>.png.
GenerateBandwidthChart(b) == IF DOMAIN b = {} THEN {} ELSE {"bandwidth"}

\* run_analysis, "if generate_charts:"; the flag is the --no-charts option.
GenerateCharts ==
    /\ pc = "charts"
    /\ \E generate_charts \in BOOLEAN :
         charts' =
           IF generate_charts
             THEN (IF DOMAIN latency_data # {}
                     THEN GenerateLatencyChart(latency_data) ELSE {})
                  \cup
                  (IF DOMAIN bandwidth_data # {}
                     THEN GenerateBandwidthChart(bandwidth_data) ELSE {})
             ELSE {}
    /\ pc' = "report"
    /\ UNCHANGED <<data, seen, warnings, latency_data, bandwidth_data,
                   report, error>>

(***************************************************************************)
(* generate_summary_report                                                 *)
(***************************************************************************)
\* Thresholds of the latency ratings, in percent.
ExcellentOverhead == 10
GoodOverhead == 25

\* Thresholds of the bandwidth ratings: the literals 0.8 and 0.6.
ExcellentRatio == Rat(4, 5)
GoodRatio == Rat(3, 5)

\* Faulty variant of LatencyRating: the thresholds taken as inclusive.
LatencyRatingInclusive(overhead_percent) ==
    IF ~RatLess(RatInt(ExcellentOverhead), overhead_percent) THEN "EXCELLENT"
    ELSE IF ~RatLess(RatInt(GoodOverhead), overhead_percent) THEN "GOOD"
    ELSE "NEEDS IMPROVEMENT"

\* Per-test latency rating.
LatencyRating(overhead_percent) ==
    IF RatLess(overhead_percent, RatInt(ExcellentOverhead)) THEN "EXCELLENT"
    ELSE IF RatLess(overhead_percent, RatInt(GoodOverhead)) THEN "GOOD"
    ELSE "NEEDS IMPROVEMENT"

\* Faulty variant of BandwidthRating: the thresholds taken as inclusive.
BandwidthRatingInclusive(bandwidth_ratio) ==
    IF ~RatLess(bandwidth_ratio, ExcellentRatio) THEN "EXCELLENT"
    ELSE IF ~RatLess(bandwidth_ratio, GoodRatio) THEN "GOOD"
    ELSE "NEEDS IMPROVEMENT"

\* Per-test bandwidth rating.
BandwidthRating(bandwidth_ratio) ==
    IF RatLess(ExcellentRatio, bandwidth_ratio) THEN "EXCELLENT"
    ELSE IF RatLess(GoodRatio, bandwidth_ratio) THEN "GOOD"
    ELSE "NEEDS IMPROVEMENT"

RECURSIVE Sum(_, _)
Sum(xs, keys) ==
    IF keys = {} THEN RatInt(0)
    ELSE LET k == CHOOSE x \in keys : TRUE
         IN  RatAdd(xs[k], Sum(xs, keys \ {k}))

\* Faulty variant of Mean: the sum, never divided by the count.
MeanUndivided(xs) == Sum(xs, DOMAIN xs)

\* np.mean of a non-empty list, given as a mapping from test name to value.
Mean(xs) == RatMul(Sum(xs, DOMAIN xs), Rat(1, Cardinality(DOMAIN xs)))

\* Faulty variant of OverallRating: either average suffices for a tier.
OverallRatingEither(avg_latency_overhead, avg_bandwidth_efficiency) ==
    IF \/ RatLess(avg_latency_overhead, RatInt(ExcellentOverhead))
       \/ RatLess(ExcellentRatio, avg_bandwidth_efficiency)
      THEN "EXCELLENT"
    ELSE IF \/ RatLess(avg_latency_overhead, RatInt(GoodOverhead))
            \/ RatLess(GoodRatio, avg_bandwidth_efficiency)
      THEN "GOOD"
    ELSE "NEEDS IMPROVEMENT"

\* Overall rating from the two averages.
OverallRating(avg_latency_overhead, avg_bandwidth_efficiency) ==
    IF /\ RatLess(avg_latency_overhead, RatInt(ExcellentOverhead))
       /\ RatLess(ExcellentRatio, avg_bandwidth_efficiency)
      THEN "EXCELLENT"
    ELSE IF /\ RatLess(avg_latency_overhead, RatInt(GoodOverhead))
            /\ RatLess(GoodRatio, avg_bandwidth_efficiency)
      THEN "GOOD"
    ELSE "NEEDS IMPROVEMENT"

\* "if latency_data and bandwidth_data": both mappings non-empty.
HasBoth(l, b) == DOMAIN l # {} /\ DOMAIN b # {}

\* What the report file says, section by section.  Test titles and number
\* formatting are left out: each rating is kept under its test name.
SummaryReport(l, b) ==
    [written        |-> TRUE,
     latency        |-> [t \in DOMAIN l |-> LatencyRating(l[t].overhead_percent)],
     latency_note   |-> IF DOMAIN l # {} THEN "" ELSE "No latency data available",
     bandwidth      |-> [t \in DOMAIN b |-> BandwidthRating(b[t].bandwidth_ratio)],
     bandwidth_note |-> IF DOMAIN b # {} THEN "" ELSE "No bandwidth data available",
     overall        |->
        IF HasBoth(l, b)
          THEN OverallRating(
                 Mean([t \in DOMAIN l |-> l[t].overhead_percent]),
                 Mean([t \in DOMAIN b |-> b[t].bandwidth_ratio]))
          ELSE "Insufficient data for overall assessment"]

\* generate_summary_report, then "Analysis complete!" and the return.
GenerateSummaryReport ==
    /\ pc = "report"
    /\ report' = SummaryReport(latency_data, bandwidth_data)
    /\ pc' = "done"
    /\ UNCHANGED <<data, seen, warnings, latency_data, bandwidth_data,
                   charts, error>>

(***************************************************************************)
(* Spec: one run of run_analysis over the files of the results directory.  *)
(***************************************************************************)
Init ==
    /\ pc = "load_baseline"
    /\ data = [baseline |-> EmptyMap, vpn |-> EmptyMap]
    /\ seen = {}
    /\ warnings = {}
    /\ latency_data = EmptyMap
    /\ bandwidth_data = EmptyMap
    /\ charts = {}
    /\ report = NoReport
    /\ error = NoError

Next ==
    \/ LoadBaselineFile
    \/ LoadBaselineDone
    \/ LoadVpnFile
    \/ LoadVpnDone
    \/ AnalyzeLatency
    \/ AnalyzeBandwidth
    \/ GenerateCharts
    \/ GenerateSummaryReport

Spec == Init /\ [][Next]_vars

(***************************************************************************)
(* SpecReport: generate_summary_report called on comparison mappings that  *)
(* the two analyses can return.                                            *)
(***************************************************************************)
TargetNames == <<"a", "b", "c", "d">>

ReportPingTests == { <<"ping", TargetNames[i]>> : i \in 1..MaxTests }

ReportIperfTests == { <<"iperf", TargetNames[i]>> : i \in 1..MaxTests }

\* <<baseline avg_ping_ms, vpn avg_ping_ms>>: overheads of -10, 5, 9.999, 10,
\* 24.999, 25 and 30 percent.
ReportLatencyPairs ==
    { <<20, 18>>, <<20, 21>>, <<100000, 109999>>, <<20, 22>>,
      <<100000, 124999>>, <<20, 25>>, <<20, 26>> }

\* <<baseline bandwidth_mbps, vpn bandwidth_mbps>>: ratios of 0.5, 0.6, 0.6001,
\* 0.8, 0.8001, 0.85 and 0.9.
ReportBandwidthPairs ==
    { <<500, 250>>, <<500, 300>>, <<10000, 6001>>,
      <<500, 400>>, <<10000, 8001>>, <<500, 425>>, <<500, 450>> }

ReportLatencyInputs ==
    UNION { [S -> { LatencyComparison(LatencyRecord(p[1]), LatencyRecord(p[2])) :
                      p \in ReportLatencyPairs }] :
            S \in SUBSET ReportPingTests }

ReportBandwidthInputs ==
    UNION { [S -> { BandwidthComparison(BandwidthRecord(p[1]), BandwidthRecord(p[2])) :
                      p \in ReportBandwidthPairs }] :
            S \in SUBSET ReportIperfTests }

InitReport ==
    /\ pc = "report"
    /\ data = [baseline |-> EmptyMap, vpn |-> EmptyMap]
    /\ seen = {}
    /\ warnings = {}
    /\ latency_data \in ReportLatencyInputs
    /\ bandwidth_data \in ReportBandwidthInputs
    /\ charts = {}
    /\ report = NoReport
    /\ error = NoError

NextReport == GenerateSummaryReport

SpecReport == InitReport /\ [][NextReport]_vars

(***************************************************************************)
(* Properties.                                                             *)
(***************************************************************************)
LatencyFields == {"avg_ping_ms", "min_ping_ms", "max_ping_ms", "packet_loss_percent"}

\* The record stored under test name t has the fields of its kind.
WellFormed(t, r) ==
    IF t[1] = "ping" THEN LatencyFields \subseteq DOMAIN r
                     ELSE "bandwidth_mbps" \in DOMAIN r

LoadedWellFormed ==
    \A d \in Dirs : \A t \in DOMAIN data[d] : WellFormed(t, data[d][t])

NonZeroBaselines ==
    \A t \in DOMAIN data.baseline :
       IF t[1] = "ping" THEN data.baseline[t].avg_ping_ms # 0
                        ELSE data.baseline[t].bandwidth_mbps # 0

\* Names of one kind that occur in both loaded mappings.
InBoth(kind) ==
    { t \in DOMAIN data.baseline \cap DOMAIN data.vpn : t[1] = kind }

AfterLatency == {"analyze_bandwidth", "charts", "report", "done"}

AfterBandwidth == {"charts", "report", "done"}

\* C1: with well-formed records and non-zero baseline values, neither
\* analysis raises, analyze_latency returns exactly the ping names present in
\* both mappings and analyze_bandwidth exactly the iperf names present in both.
C1_InnerJoin ==
    (LoadedWellFormed /\ NonZeroBaselines) =>
       /\ pc = "crashed" => error.in = "load_test_data"
       /\ pc \in AfterLatency => DOMAIN latency_data = InBoth("ping")
       /\ pc \in AfterBandwidth => DOMAIN bandwidth_data = InBoth("iperf")

\* A finished run with a matched ping pair, a ping name only in baseline and
\* a name only in vpn.
C1_Witness ==
    /\ pc = "done"
    /\ LoadedWellFormed /\ NonZeroBaselines
    /\ DOMAIN latency_data # {}
    /\ \E t \in DOMAIN data.baseline \ DOMAIN data.vpn : t[1] = "ping"
    /\ DOMAIN data.vpn \ DOMAIN data.baseline # {}

\* C2: every latency entry has overhead_ms = vpn avg - baseline avg,
\* overhead_percent = overhead_ms / baseline avg * 100 and the two input
\* averages unchanged; baseline 20 and VPN 22 give 2 ms and 10 percent.
C2_LatencyOverhead ==
    \A t \in DOMAIN latency_data :
       LET b == data.baseline[t].avg_ping_ms
           v == data.vpn[t].avg_ping_ms
           e == latency_data[t]
       IN  b > 0 =>
             /\ e.overhead_ms = v - b
             /\ e.overhead_percent[2] > 0
             /\ e.overhead_percent[1] * b = e.overhead_ms * 100 * e.overhead_percent[2]
             /\ e.baseline_avg = b
             /\ e.vpn_avg = v
             /\ (b = 20 /\ v = 22) =>
                   (e.overhead_ms = 2 /\ e.overhead_percent = <<10, 1>>)

\* The example pair has been analysed.
C2_Witness ==
    \E t \in DOMAIN latency_data :
       /\ latency_data[t].baseline_avg = 20
       /\ latency_data[t].vpn_avg = 22
       /\ latency_data[t].overhead_percent = <<10, 1>>

\* C3: every bandwidth entry has bandwidth_ratio = vpn / baseline,
\* bandwidth_loss_percent = (1 - ratio) * 100 and the baseline record's
\* direction, or "unknown" without one; 500 and 450 give 0.9 and 10 percent.
C3_BandwidthRatio ==
    \A t \in DOMAIN bandwidth_data :
       LET base == data.baseline[t]
           b == base.bandwidth_mbps
           v == data.vpn[t].bandwidth_mbps
           e == bandwidth_data[t]
           r == e.bandwidth_ratio
           l == e.bandwidth_loss_percent
       IN  b > 0 =>
             /\ r[2] > 0 /\ l[2] > 0
             /\ r[1] * b = v * r[2]
             /\ l[1] * r[2] = 100 * (r[2] - r[1]) * l[2]
             /\ "direction" \in DOMAIN base => e.direction = base.direction
             /\ "direction" \notin DOMAIN base => e.direction = "unknown"
             /\ (b = 500 /\ v = 450) => (r = <<9, 10>> /\ l = <<10, 1>>)

\* The example pair has been analysed, its direction taken from baseline.
C3_Witness ==
    \E t \in DOMAIN bandwidth_data :
       /\ bandwidth_data[t].baseline_mbps = 500
       /\ bandwidth_data[t].vpn_mbps = 450
       /\ bandwidth_data[t].bandwidth_ratio = <<9, 10>>
       /\ bandwidth_data[t].direction = "download"
       /\ "direction" \notin DOMAIN data.vpn[t]

\* C4: a matched pair with a zero baseline value never ends the run with an
\* unhandled division error.
C4_ZeroBaselineHandled ==
    ~(pc = "crashed" /\ error.type = "ZeroDivisionError")

\* C8: a run of well-formed records in which one side has no comparison
\* never crashes in the analyses, draws no chart for an empty side, and
\* reports "no data available" per empty section and "insufficient data"
\* instead of an overall rating.
C8_MissingDataNeverCrashes ==
    LoadedWellFormed =>
       /\ (pc = "crashed" /\ error.in = "analyze_bandwidth") =>
             DOMAIN latency_data # {}
       /\ (pc = "crashed" /\ error.in = "analyze_latency") =>
             InBoth("iperf") # {}
       /\ (pc \in {"report", "done"} /\ DOMAIN latency_data = {}) =>
             "latency" \notin charts
       /\ (pc \in {"report", "done"} /\ DOMAIN bandwidth_data = {}) =>
             "bandwidth" \notin charts
       /\ (pc = "done" /\ DOMAIN latency_data = {}) =>
             /\ report.latency_note = "No latency data available"
             /\ report.overall = "Insufficient data for overall assessment"
       /\ (pc = "done" /\ DOMAIN bandwidth_data = {}) =>
             /\ report.bandwidth_note = "No bandwidth data available"
             /\ report.overall = "Insufficient data for overall assessment"

\* C9: the load is never aborted by a file, every stored value is a
\* well-formed record, and every visited file that is not stored has a warning.
C9_LoaderTolerates ==
    /\ ~(pc = "crashed" /\ error.in = "load_test_data")
    /\ \A f \in seen :
          LET d == f[1]
              t == TestName(f[2], TestType)
          IN  IF t \in DOMAIN data[d]
                THEN WellFormed(t, data[d][t])
                ELSE f \in warnings

\* Sum of the values of xs over keys, for stating the averages.
RECURSIVE Total(_, _)
Total(xs, keys) ==
    IF keys = {} THEN <<0, 1>>
    ELSE LET k == CHOOSE x \in keys : TRUE
             rest == Total(xs, keys \ {k})
         IN  Rat(xs[k][1] * rest[2] + rest[1] * xs[k][2], xs[k][2] * rest[2])

Overheads == [t \in DOMAIN latency_data |-> latency_data[t].overhead_percent]

Ratios == [t \in DOMAIN bandwidth_data |-> bandwidth_data[t].bandwidth_ratio]

\* C5: each latency rating in the report follows from overhead_percent alone:
\* below 10 EXCELLENT, from 10 to below 25 GOOD, from 25 NEEDS IMPROVEMENT;
\* 9.999 and every negative overhead are EXCELLENT, 10.0 and 24.999 GOOD,
\* 25.0 NEEDS IMPROVEMENT.
C5_LatencyRating ==
    report.written =>
       /\ DOMAIN report.latency = DOMAIN latency_data
       /\ \A t \in DOMAIN report.latency :
             LET p == Overheads[t]
                 r == report.latency[t]
             IN  /\ p[1] < 10 * p[2] => r = "EXCELLENT"
                 /\ (p[1] >= 10 * p[2] /\ p[1] < 25 * p[2]) => r = "GOOD"
                 /\ p[1] >= 25 * p[2] => r = "NEEDS IMPROVEMENT"
                 /\ p = <<9999, 1000>> => r = "EXCELLENT"
                 /\ p = <<10, 1>> => r = "GOOD"
                 /\ p = <<24999, 1000>> => r = "GOOD"
                 /\ p = <<25, 1>> => r = "NEEDS IMPROVEMENT"
                 /\ p[1] < 0 => r = "EXCELLENT"

\* A report that rates one test at exactly 10 percent and one at exactly 25.
C5_Witness ==
    /\ report.written
    /\ \E t, u \in DOMAIN report.latency :
          /\ Overheads[t] = <<10, 1>> /\ report.latency[t] = "GOOD"
          /\ Overheads[u] = <<25, 1>> /\ report.latency[u] = "NEEDS IMPROVEMENT"

\* C6: each bandwidth rating in the report follows from bandwidth_ratio alone:
\* above 0.8 EXCELLENT, above 0.6 up to 0.8 GOOD, up to 0.6 NEEDS IMPROVEMENT;
\* 0.8 and 0.6001 are GOOD, 0.8001 EXCELLENT, 0.6 NEEDS IMPROVEMENT.
C6_BandwidthRating ==
    report.written =>
       /\ DOMAIN report.bandwidth = DOMAIN bandwidth_data
       /\ \A t \in DOMAIN report.bandwidth :
             LET q == Ratios[t]
                 r == report.bandwidth[t]
             IN  /\ 5 * q[1] > 4 * q[2] => r = "EXCELLENT"
                 /\ (5 * q[1] <= 4 * q[2] /\ 5 * q[1] > 3 * q[2]) => r = "GOOD"
                 /\ 5 * q[1] <= 3 * q[2] => r = "NEEDS IMPROVEMENT"
                 /\ q = <<4, 5>> => r = "GOOD"
                 /\ q = <<8001, 10000>> => r = "EXCELLENT"
                 /\ q = <<3, 5>> => r = "NEEDS IMPROVEMENT"
                 /\ q = <<6001, 10000>> => r = "GOOD"

\* A report that rates one test at exactly 0.8 and one at exactly 0.6.
C6_Witness ==
    /\ report.written
    /\ \E t, u \in DOMAIN report.bandwidth :
          /\ Ratios[t] = <<4, 5>> /\ report.bandwidth[t] = "GOOD"
          /\ Ratios[u] = <<3, 5>> /\ report.bandwidth[u] = "NEEDS IMPROVEMENT"

\* C7: with comparisons on both sides the overall rating is EXCELLENT iff the
\* mean overhead percent L is below 10 and the mean ratio B above 0.8,
\* otherwise GOOD iff L is below 25 and B above 0.6, otherwise NEEDS
\* IMPROVEMENT; 5 and 0.85 give EXCELLENT, 15 and 0.7 GOOD, 30 and 0.5 NEEDS
\* IMPROVEMENT, 5 and 0.7 GOOD.
C7_OverallRating ==
    (report.written /\ DOMAIN latency_data # {} /\ DOMAIN bandwidth_data # {}) =>
       LET n == Cardinality(DOMAIN latency_data)
           m == Cardinality(DOMAIN bandwidth_data)
           sl == Total(Overheads, DOMAIN latency_data)
           sb == Total(Ratios, DOMAIN bandwidth_data)
           LBelow(k) == sl[1] < k * n * sl[2]
           BAbove(k) == 5 * sb[1] > k * m * sb[2]
           LIs(k) == sl[1] = k * n * sl[2]
           BIs(a, b) == b * sb[1] = a * m * sb[2]
       IN  /\ report.overall = "EXCELLENT" <=> (LBelow(10) /\ BAbove(4))
           /\ report.overall = "GOOD" <=>
                 (~(LBelow(10) /\ BAbove(4)) /\ LBelow(25) /\ BAbove(3))
           /\ report.overall = "NEEDS IMPROVEMENT" <=> ~(LBelow(25) /\ BAbove(3))
           /\ (LIs(5) /\ BIs(17, 20)) => report.overall = "EXCELLENT"
           /\ (LIs(15) /\ BIs(7, 10)) => report.overall = "GOOD"
           /\ (LIs(30) /\ BIs(1, 2)) => report.overall = "NEEDS IMPROVEMENT"
           /\ (LIs(5) /\ BIs(7, 10)) => report.overall = "GOOD"

\* A report over two different latency tests averaging 15 percent and two
\* different bandwidth tests averaging 0.7, rated GOOD overall.
C7_Witness ==
    /\ report.written
    /\ report.overall = "GOOD"
    /\ \E t, u \in DOMAIN latency_data :
          /\ Overheads[t] # Overheads[u]
          /\ Total(Overheads, {t, u}) = <<30, 1>>
          /\ DOMAIN latency_data = {t, u}
    /\ \E t, u \in DOMAIN bandwidth_data :
          /\ Ratios[t] # Ratios[u]
          /\ Total(Ratios, {t, u}) = <<7, 5>>
          /\ DOMAIN bandwidth_data = {t, u}

Rank(rating) ==
    CASE rating = "EXCELLENT" -> 2
      [] rating = "GOOD" -> 1
      [] rating = "NEEDS IMPROVEMENT" -> 0

\* C10: with comparisons on both sides the overall rating is at least as good
\* as the worst per-test rating, that is, as some latency or bandwidth rating
\* of the report (EXCELLENT above GOOD above NEEDS IMPROVEMENT).
C10_OverallNotWorseThanWorst ==
    (report.written /\ DOMAIN latency_data # {} /\ DOMAIN bandwidth_data # {}) =>
       \/ \E t \in DOMAIN report.latency :
             Rank(report.overall) >= Rank(report.latency[t])
       \/ \E t \in DOMAIN report.bandwidth :
             Rank(report.overall) >= Rank(report.bandwidth[t])

\* Averaging hides a failing test: NEEDS IMPROVEMENT on one test of each side,
\* yet the overall rating is GOOD.
C10_Witness ==
    /\ report.written
    /\ report.overall = "GOOD"
    /\ \E t \in DOMAIN report.latency : report.latency[t] = "NEEDS IMPROVEMENT"
    /\ \E t \in DOMAIN report.bandwidth : report.bandwidth[t] = "NEEDS IMPROVEMENT"

====
